---- MODULE Spec2Model ----
(* AstralytiQ / sales-forecast-app.                                        *)
(*   Spec       : the forecast-training page of the modular app            *)
(*                (src/components/ml_studio.py), one Streamlit script run   *)
(*                per action.                                               *)
(*   SpecCall   : Spec plus train_forecast_model called as a function with  *)
(*                an arbitrary forecast_periods argument.                   *)
(*   SpecEngine : the forecasting engine of the specification (ingest and   *)
(*                the four strategies).                                     *)
(*   SpecAuth   : the backend's login and token check                       *)
(*                (src/backend/main.py).                                    *)
EXTENDS Integers, Sequences, FiniteSets, TLC

(* ---------------------------------------------------------------------- *)
(* Bounds                                                                  *)
(* ---------------------------------------------------------------------- *)

\* rows of a table uploaded on the forecast-training page
UiMaxRows == 2
\* rows of a raw table given to the forecasting engine
MaxRows == 3
\* distinct calendar days a date cell can name (day numbers 1..MaxDay)
MaxDay == 3
\* largest forecast horizon requested of the engine
MaxHorizon == 2
\* largest lookback window / lag count requested of the engine
MaxLag == 2
\* latest time of the backend's clock, in hours
MaxClock == 48
\* hours the backend's clock advances in one step
ClockStep == 12
\* access tokens the backend issues in one behaviour
MaxTokens == 2
\* responses of client.get_job_status within max_wait
MaxPolls == 2

(* ---------------------------------------------------------------------- *)
(* Program constants                                                       *)
(* ---------------------------------------------------------------------- *)

SliderMin == 7
SliderMax == 365
SliderDefault == 30

JWT_EXPIRATION_HOURS == 24

\* the values st.slider("Forecast Periods (days)") can return, sampled at its
\* ends and its default
SliderValues == {SliderMin, SliderDefault, SliderMax}

(* ---------------------------------------------------------------------- *)
(* Uploaded table: what pd.read_csv yields for a two-column CSV             *)
(* ---------------------------------------------------------------------- *)

\* a cell of the date column: a parseable date (day number d), an
\* unparseable string, or an empty cell (NaN)
DateCells ==
    [k : {"ok"}, d : 1..MaxDay] \cup {[k |-> "bad", d |-> 0], [k |-> "missing", d |-> 0]}

\* a cell of the value column: a number, an empty cell (NaN), or text
ValueCells ==
    {[k |-> "num", v |-> 10], [k |-> "num", v |-> 20],
     [k |-> "missing", v |-> 0], [k |-> "text", v |-> 0]}

Rows == [date : DateCells, value : ValueCells]

\* The page's code looks only at whether a cell parses, so the tables
\* uploaded there use one representative per kind of cell.
UiRows == {r \in Rows : r.date.d <= 1 /\ r.value.v <= 10}

Tables == UNION {[1..n -> UiRows] : n \in 0..UiMaxRows}

NoFile == [present |-> FALSE, rows |-> <<>>]

\* pd.api.types.is_numeric_dtype(df[col]) for the value column: read_csv
\* gives a numeric dtype iff there is at least one row and no cell is text
IsNumericDtype(rows) ==
    /\ Len(rows) > 0
    /\ \A i \in 1..Len(rows) : rows[i].value.k # "text"

\* pd.to_datetime(df[date_column]) with the default errors='raise':
\* an unparseable string raises, NaN becomes NaT
ToDatetimeRaises(rows) ==
    \E i \in 1..Len(rows) : rows[i].date.k = "bad"

\* The value selectbox offers only numeric columns; with none, value_column
\* is None and df[None] raises KeyError. pd.to_numeric never raises on a
\* numeric column.
ToNumericRaises(rows) == ~IsNumericDtype(rows)

\* the try block of "Data validation preview": "ok" or "failed"
ValidateData(rows) ==
    IF ToDatetimeRaises(rows) \/ ToNumericRaises(rows) THEN "failed" ELSE "ok"

\* rows that have both a parsed date and a target value
ValidRow(r) == r.date.k = "ok" /\ r.value.k = "num"

NumValid(rows) == Cardinality({i \in 1..Len(rows) : ValidRow(rows[i])})

(* ---------------------------------------------------------------------- *)
(* train_forecast_model and simulate_training                              *)
(* ---------------------------------------------------------------------- *)

\* Outcomes of the three client calls as train_forecast_model's code tells
\* them apart: the call raises (with BackendClient as it is in
\* src/backend_integration.py the methods are absent and the call raises
\* AttributeError), returns {"error": ...}, or returns the payload.
UploadOutcomes == {"raise", "error", "ok"}
TrainOutcomes == {"raise", "error", "ok"}
StatusOutcomes == {"error", "running", "completed", "failed"}

PollSeqs == UNION {[1..n -> StatusOutcomes] : n \in 0..MaxPolls}

EmptyRun ==
    [validation |-> "none", halted |-> FALSE, buttonRendered |-> FALSE,
     trainInvoked |-> FALSE, periods |-> 0, shown |-> {}, calls |-> <<>>,
     modelStored |-> FALSE, outcome |-> "none"]

Show(r, msgs) == [r EXCEPT !.shown = @ \cup msgs]

\* how the training request ended: "fitted" (a real model fit completed),
\* "no_token", "upload_failure", "training_failure", "status_error",
\* "timeout" (max_wait passed), or "none" (no request)
Ended(r, how) == [r EXCEPT !.outcome = how]

\* simulate_training: info, progress steps, success message, mock metrics
SimulateTraining(r) ==
    Show(r, {"info:simulation mode", "success:training completed (simulated)",
             "metrics"})

\* the polling loop of train_forecast_model over the status responses that
\* arrive before max_wait; running off the end of polls is the timeout
RECURSIVE PollStatus(_, _, _)
PollStatus(r, polls, i) ==
    IF i > Len(polls) THEN Ended(r, "timeout")
    ELSE LET r1 == [r EXCEPT !.calls = Append(@, "get_job_status")] IN
         CASE polls[i] = "error" ->
                Ended(Show(r1, {"error:checking status"}), "status_error")
           [] polls[i] = "completed" ->
                Ended([Show(r1, {"success:training completed", "metrics"})
                          EXCEPT !.modelStored = TRUE], "fitted")
           [] polls[i] = "failed" ->
                Ended(Show(r1, {"error:training failed"}), "training_failure")
           [] OTHER -> PollStatus(r1, polls, i + 1)

\* "Start training" block
StartTraining(r, tr, polls) ==
    LET r1 == [r EXCEPT !.calls = Append(@, "train_forecast")] IN
    CASE tr = "raise" -> Ended(Show(r1, {"error:training error"}), "training_failure")
      [] tr = "error" -> Ended(Show(r1, {"error:training failed"}), "training_failure")
      [] OTHER -> PollStatus(r1, polls, 1)

TrainForecastModel(r, token, periods, up, tr, polls) ==
    LET r0 == [r EXCEPT !.trainInvoked = TRUE, !.periods = periods] IN
    IF ~token
    THEN Ended(SimulateTraining(Show(r0, {"warning:please login first"})), "no_token")
    ELSE LET r1 == [r0 EXCEPT !.calls = Append(@, "upload_data")] IN
         CASE up = "raise" -> Ended(Show(r1, {"error:upload error"}), "upload_failure")
           [] up = "error" -> Ended(Show(r1, {"error:upload failed"}), "upload_failure")
           [] OTHER -> StartTraining(Show(r1, {"success:data uploaded"}), tr, polls)

(* ---------------------------------------------------------------------- *)
(* show_forecast_training_tab: one script run                              *)
(* ---------------------------------------------------------------------- *)

\* a stop that lets the script run on
StStopFallsThrough(r) == r

\* st.stop(): the script run ends here (StopException is not an Exception,
\* so the enclosing "except Exception" does not catch it)
StStop(r) == [r EXCEPT !.halted = TRUE]

\* the "Data validation preview" try/except
ValidationStep(r, rows) ==
    IF ValidateData(rows) = "failed"
    THEN StStop(Show([r EXCEPT !.validation = "failed"], {"error:validating data"}))
    ELSE Show([r EXCEPT !.validation = "ok"], {"data summary"})

\* "Step 3": the train button and its handler
TrainButtonStep(r, clicked, token, periods, up, tr, polls) ==
    LET r1 == [r EXCEPT !.buttonRendered = TRUE] IN
    IF clicked THEN TrainForecastModel(r1, token, periods, up, tr, polls) ELSE r1

ShowForecastTrainingTab(file, clicked, token, periods, up, tr, polls) ==
    IF ~file.present
    THEN Show(EmptyRun, {"info:upload a csv"})
    ELSE LET r1 == Show(EmptyRun, {"success:file loaded"})
             r2 == ValidationStep(r1, file.rows)
         IN  IF r2.halted THEN r2
             ELSE TrainButtonStep(r2, clicked, token, periods, up, tr, polls)

(* ---------------------------------------------------------------------- *)
(* State                                                                   *)
(* ---------------------------------------------------------------------- *)

VARIABLES
    uploaded_file,      \* the file uploader's widget state
    access_token,       \* whether st.session_state holds 'access_token'
    forecast_periods,   \* the slider's widget state
    run                 \* what the latest script run did and displayed

VARIABLES
    epc,                \* the engine's position: "idle", "series", "data_error",
                        \* "forecast_error", "fit_error", "lstm", "done"
    raw_table,          \* the raw table being ingested
    series,             \* the TimeSeries built by ingest
    request,            \* the ForecastRequest
    lstm,               \* the LSTM strategy's rollout state
    result              \* the ForecastResult

uiVars == <<uploaded_file, access_token, forecast_periods, run>>

VARIABLES
    users,              \* the backend's users table
    now,                \* the backend's clock, in hours
    issued,             \* the tokens login returned, each with the credentials
                        \* of the request it answered
    resp,               \* the latest request to the backend and its response
    served              \* the latest request to a protected endpoint: how far
                        \* it got and what it was answered

engVars == <<epc, raw_table, series, request, lstm, result>>

authVars == <<users, now, issued, resp, served>>

VARIABLES
    app,                \* which Streamlit app the browser session runs
    session,            \* st.session_state of that session
    wall,               \* datetime.now() on the frontend
    view,               \* what the latest run of main rendered
    last                \* the latest interaction with the app

sessVars == <<app, session, wall, view, last>>

VARIABLES
    manager,            \* the auth manager of app_modular: none, or one whose
                        \* Supabase client is enabled or not
    stores,             \* where accounts are kept: DEMO_USERS, the local
                        \* storage file and Supabase
    reg                 \* the latest sign-up or sign-in and what it returned

regVars == <<manager, stores, reg>>

VARIABLES
    active_connections, \* ConnectionManager.active_connections
    dead,               \* the connections whose send_text raises
    bcast               \* the latest broadcast: the list it started on, the
                        \* sends it attempted, the list it left

wsVars == <<active_connections, dead, bcast>>

VARIABLES
    mpc,                \* where start_full_stack is: main, the monitor loop's
                        \* sleep and checks, or after the loop
    backend_process,    \* the handles monitor_processes holds: a Popen
    frontend_process,   \* object ("proc") or None ("none")
    backend_alive,      \* whether the latest backend process is running
    frontend_alive,     \* whether the latest frontend process is running
    deaths              \* how many times a process has died

monVars == <<mpc, backend_process, frontend_process, backend_alive,
             frontend_alive, deaths>>

VARIABLES
    dpc,                \* where scripts/deploy.py main is
    dargs,              \* its parsed arguments
    dlog                \* what the run has done and printed so far

depVars == <<dpc, dargs, dlog>>

vars == <<uploaded_file, access_token, forecast_periods, run,
          epc, raw_table, series, request, lstm, result,
          users, now, issued, resp, served,
          app, session, wall, view, last,
          manager, stores, reg,
          active_connections, dead, bcast,
          mpc, backend_process, frontend_process, backend_alive,
          frontend_alive, deaths,
          dpc, dargs, dlog>>

\* everything but the forecast-training page
notUi == <<depVars, monVars, wsVars, engVars, authVars, sessVars, regVars>>

\* everything but the forecasting engine
notEng == <<depVars, monVars, wsVars, uiVars, authVars, sessVars, regVars>>

\* everything but the backend
notAuth == <<depVars, monVars, wsVars, uiVars, engVars, sessVars, regVars>>

\* everything but the browser session
notSess == <<depVars, monVars, wsVars, uiVars, engVars, authVars, regVars>>

\* everything but the accounts of app_modular
notReg == <<depVars, monVars, wsVars, uiVars, engVars, authVars, sessVars>>

\* everything but the WebSocket connections
notWs == <<depVars, monVars, uiVars, engVars, authVars, sessVars, regVars>>

\* everything but the full-stack launcher
notMon == <<depVars, uiVars, engVars, authVars, sessVars, regVars, wsVars>>

\* everything but the deploy script
notDep == <<uiVars, engVars, authVars, sessVars, regVars, wsVars, monVars>>

UiInit ==
    /\ uploaded_file = NoFile
    /\ access_token = FALSE
    /\ forecast_periods = SliderDefault
    /\ run = Show(EmptyRun, {"info:upload a csv"})

\* a rerun caused by anything but the train button
Rerun(file, token, periods) ==
    ShowForecastTrainingTab(file, FALSE, token, periods, "raise", "raise", <<>>)

\* the user picks a CSV in the file uploader; the script reruns
UploadCsv ==
    \E t \in Tables :
        /\ uploaded_file' = [present |-> TRUE, rows |-> t]
        /\ run' = Rerun(uploaded_file', access_token, forecast_periods)
        /\ UNCHANGED <<access_token, forecast_periods, notUi>>

\* the user moves the forecast-periods slider (rendered once a file is
\* loaded); the script reruns
MoveSlider ==
    \E p \in SliderValues :
        /\ uploaded_file.present
        /\ forecast_periods' = p
        /\ run' = Rerun(uploaded_file, access_token, p)
        /\ UNCHANGED <<uploaded_file, access_token, notUi>>

\* backend_integration.authenticate_user stores the token in the session
SessionLogin ==
    /\ ~access_token
    /\ access_token' = TRUE
    /\ run' = Rerun(uploaded_file, TRUE, forecast_periods)
    /\ UNCHANGED <<uploaded_file, forecast_periods, notUi>>

\* backend_integration.logout_user removes it
SessionLogout ==
    /\ access_token
    /\ access_token' = FALSE
    /\ run' = Rerun(uploaded_file, FALSE, forecast_periods)
    /\ UNCHANGED <<uploaded_file, forecast_periods, notUi>>

\* the user clicks "Train Forecasting Model", which the previous run
\* rendered; the script reruns with the button returning True
ClickTrain ==
    /\ run.buttonRendered
    /\ \E up \in UploadOutcomes, tr \in TrainOutcomes, polls \in PollSeqs :
          run' = ShowForecastTrainingTab(uploaded_file, TRUE, access_token,
                                         forecast_periods, up, tr, polls)
    /\ UNCHANGED <<uploaded_file, access_token, forecast_periods, notUi>>

UiNext == UploadCsv \/ MoveSlider \/ SessionLogin \/ SessionLogout \/ ClickTrain

\* train_forecast_model called as a function, with any integer for
\* forecast_periods (the page itself passes only slider values)
CallPeriods == {-1, 0, SliderMin}

CallTrainForecastModel ==
    /\ \E p \in CallPeriods, up \in UploadOutcomes, tr \in TrainOutcomes,
          polls \in PollSeqs :
          run' = TrainForecastModel(EmptyRun, access_token, p, up, tr, polls)
    /\ UNCHANGED <<uploaded_file, access_token, forecast_periods, notUi>>

(* ---------------------------------------------------------------------- *)
(* Forecasting engine (spec sections 3, 4 and 7)                            *)
(* ---------------------------------------------------------------------- *)

\* raw tables given to ingest: the target column holds numbers or nothing
EngRows == {r \in Rows : r.value.k # "text"}

RawTables == UNION {[1..n -> EngRows] : n \in 0..MaxRows}

ToPoint(r) == [t |-> r.date.d, v |-> r.value.v]

\* "Drops any row missing either the parsed date or the target value"
DropMissing(rows) ==
    LET keep == SelectSeq(rows, ValidRow) IN
    [i \in 1..Len(keep) |-> ToPoint(keep[i])]

RECURSIVE InsertByDate(_, _)
InsertByDate(s, p) ==
    IF s = <<>> THEN <<p>>
    ELSE IF p.t < Head(s).t THEN <<p>> \o s
    ELSE <<Head(s)>> \o InsertByDate(Tail(s), p)

\* a sort that leaves the rows in their input order
KeepInputOrder(s) == s

\* "Sorts ascending by date"
RECURSIVE SortByDate(_)
SortByDate(s) ==
    IF s = <<>> THEN <<>>
    ELSE InsertByDate(SortByDate(SubSeq(s, 1, Len(s) - 1)), s[Len(s)])

\* ingest(raw_table, date_column, target_column): parse, drop, sort, index
ingest(rows) == SortByDate(DropMissing(rows))

\* the documented fallback frequency (monthly), in days
DefaultFreq == 30

\* frequency inference from the sorted index: the common spacing of at
\* least three timestamps, else the fallback
InferFreq(s) ==
    IF /\ Len(s) >= 3
       /\ s[2].t > s[1].t
       /\ \A i \in 2..(Len(s) - 1) : s[i + 1].t - s[i].t = s[2].t - s[1].t
    THEN s[2].t - s[1].t
    ELSE DefaultFreq

LastOf(s) == s[Len(s)]

\* horizon timestamps at the inferred frequency, starting right after the
\* last observed one
ForecastIndex(s, h) == [k \in 1..h |-> LastOf(s).t + k * InferFreq(s)]

\* ARIMA: horizon point forecasts from the fit on the full series
ArimaForecast(s, h) ==
    [index |-> ForecastIndex(s, h), values |-> [k \in 1..h |-> LastOf(s).v]]

\* Prophet: predict over history extended by horizon periods, then slice
\* the trailing horizon rows
ProphetForecast(s, h) ==
    LET extended == [i \in 1..(Len(s) + h) |-> IF i <= Len(s) THEN s[i].v ELSE LastOf(s).v]
    IN  [index |-> ForecastIndex(s, h),
         values |-> SubSeq(extended, Len(extended) - h + 1, Len(extended))]

\* Lagged GBM: the supervised table has one row per t > n_lags
LagTable(s, n) ==
    [i \in 1..(Len(s) - n) |->
        [target |-> s[i + n].v, lags |-> [j \in 1..n |-> s[i + n - j].v]]]

\* share of the lag table held out as the test split, in percent
TestSplitPercent == 20

TrainRows(tbl) == (Len(tbl) * (100 - TestSplitPercent)) \div 100

\* predictions on the chronological test split
TestPredictions(tbl) ==
    [i \in 1..(Len(tbl) - TrainRows(tbl)) |-> tbl[TrainRows(tbl) + i].lags[1]]

Truncate(sq, h) == SubSeq(sq, 1, IF h < Len(sq) THEN h ELSE Len(sq))

\* Lagged GBM: the test-split predictions truncated to horizon
GbmForecast(s, n, h) ==
    [index |-> ForecastIndex(s, h),
     values |-> Truncate(TestPredictions(LagTable(s, n)), h)]

\* fixed-point unit of the [0,1] scale
ScaleUnit == 10

SeqMin(vals) == CHOOSE m \in {vals[i] : i \in 1..Len(vals)} :
                    \A i \in 1..Len(vals) : m <= vals[i]
SeqMax(vals) == CHOOSE m \in {vals[i] : i \in 1..Len(vals)} :
                    \A i \in 1..Len(vals) : m >= vals[i]

\* min-max scaling fit on the full series
MinMaxScale(vals) ==
    LET lo == SeqMin(vals)
        hi == SeqMax(vals)
    IN  [i \in 1..Len(vals) |->
            IF hi = lo THEN 0 ELSE ((vals[i] - lo) * ScaleUnit) \div (hi - lo)]

InverseScale(p, lo, hi) == lo + (p * (hi - lo)) \div ScaleUnit

ValuesOf(s) == [i \in 1..Len(s) |-> s[i].v]

\* the last lookback scaled values
SeedWindow(s, lookback) ==
    LET sc == MinMaxScale(ValuesOf(s)) IN
    SubSeq(sc, Len(sc) - lookback + 1, Len(sc))

\* a window that is fed again unchanged
ReuseWindow(w, p) == w

\* append the prediction to the window, dropping the oldest value
SlideWindow(w, p) == Append(Tail(w), p)

\* what the single-step predictor may return, on the [0,1] scale
Predictions == {0, ScaleUnit \div 2, ScaleUnit}

Strategies == {"ARIMA", "Prophet", "LSTM", "LaggedGBM"}

NoRequest == [strategy |-> "none", horizon |-> 0, param |-> 0]
NoResult == [index |-> <<>>, values |-> <<>>]
NoLstm == [window |-> <<>>, inputs |-> <<>>, preds |-> <<>>, calls |-> 0]

EngInit ==
    /\ epc = "idle"
    /\ raw_table = <<>>
    /\ series = <<>>
    /\ request = NoRequest
    /\ lstm = NoLstm
    /\ result = NoResult

\* ingest a raw table; zero rows left is a DataValidationError
Ingest ==
    /\ epc = "idle"
    /\ \E t \in RawTables :
        /\ raw_table' = t
        /\ series' = ingest(t)
        /\ epc' = IF Len(ingest(t)) = 0 THEN "data_error" ELSE "series"
    /\ UNCHANGED <<request, lstm, result, notEng>>

\* a ForecastRequest on the series; horizon <= 0 is a ForecastError raised
\* before any strategy executes. The request carries the series, not the
\* raw table.
SubmitRequest ==
    /\ epc = "series"
    /\ \E st \in Strategies, h \in 0..MaxHorizon, n \in 1..MaxLag :
        /\ request' = [strategy |-> st, horizon |-> h, param |-> n]
        /\ epc' = IF h <= 0 THEN "forecast_error" ELSE "requested"
    /\ raw_table' = <<>>
    /\ UNCHANGED <<series, lstm, result, notEng>>

FitArima ==
    /\ epc = "requested" /\ request.strategy = "ARIMA"
    /\ result' = ArimaForecast(series, request.horizon)
    /\ epc' = "done"
    /\ UNCHANGED <<raw_table, series, request, lstm, notEng>>

FitProphet ==
    /\ epc = "requested" /\ request.strategy = "Prophet"
    /\ result' = ProphetForecast(series, request.horizon)
    /\ epc' = "done"
    /\ UNCHANGED <<raw_table, series, request, lstm, notEng>>

\* with no complete lag row there is nothing to fit
FitGbm ==
    /\ epc = "requested" /\ request.strategy = "LaggedGBM"
    /\ IF Len(series) - request.param < 1
       THEN epc' = "fit_error" /\ UNCHANGED result
       ELSE /\ result' = GbmForecast(series, request.param, request.horizon)
            /\ epc' = "done"
    /\ UNCHANGED <<raw_table, series, request, lstm, notEng>>

\* Scale -> Window -> Train: with no training window there is nothing to
\* fit; otherwise the rollout is seeded
LstmTrain ==
    /\ epc = "requested" /\ request.strategy = "LSTM"
    /\ IF Len(series) - request.param < 1
       THEN epc' = "fit_error" /\ UNCHANGED lstm
       ELSE /\ lstm' = [NoLstm EXCEPT !.window = SeedWindow(series, request.param)]
            /\ epc' = "lstm"
    /\ UNCHANGED <<raw_table, series, request, result, notEng>>

\* one one-step prediction of the recursive rollout
LstmPredict ==
    /\ epc = "lstm"
    /\ Len(lstm.preds) < request.horizon
    /\ \E p \in Predictions :
        lstm' = [window |-> SlideWindow(lstm.window, p),
                 inputs |-> Append(lstm.inputs, lstm.window),
                 preds |-> Append(lstm.preds, p),
                 calls |-> lstm.calls + 1]
    /\ UNCHANGED <<epc, raw_table, series, request, result, notEng>>

\* Inverse-Scale: all predictions back to the original scale
LstmFinish ==
    /\ epc = "lstm"
    /\ Len(lstm.preds) >= request.horizon
    /\ result' = [index |-> ForecastIndex(series, request.horizon),
                  values |-> [k \in 1..Len(lstm.preds) |->
                                 InverseScale(lstm.preds[k], SeqMin(ValuesOf(series)),
                                              SeqMax(ValuesOf(series)))]]
    /\ epc' = "done"
    /\ UNCHANGED <<raw_table, series, request, lstm, notEng>>

EngNext ==
    \/ Ingest \/ SubmitRequest \/ FitArima \/ FitProphet \/ FitGbm
    \/ LstmTrain \/ LstmPredict \/ LstmFinish

(* ---------------------------------------------------------------------- *)
(* Backend: users table, JWT, /api/v1/auth/login and /api/v1/auth/me        *)
(* ---------------------------------------------------------------------- *)

\* demo_users of init_database, in insertion order
DemoUsers ==
    << [email |-> "admin@astralytiq.com", password |-> "admin123",
        name |-> "System Administrator", role |-> "Platform Admin"],
       [email |-> "data.scientist@astralytiq.com", password |-> "ds123",
        name |-> "Dr. Sarah Chen", role |-> "Senior Data Scientist"],
       [email |-> "analyst@astralytiq.com", password |-> "analyst123",
        name |-> "Michael Rodriguez", role |-> "Business Analyst"] >>

\* bcrypt.hashpw(password, salt): the salt is kept in the hash
HashPw(pw, salt) == [salt |-> salt, digest |-> <<salt, pw>>]

\* a check that accepts every password
CheckPwAcceptsAll(pw, hash) == TRUE

\* bcrypt.checkpw(password, hash): rehash with the hash's salt and compare
CheckPw(pw, hash) == HashPw(pw, hash.salt) = hash

\* the users table after init_database: ids 1, 2, 3 (AUTOINCREMENT), a fresh
\* salt per user, is_active TRUE by default, last_login NULL (-1)
InitDatabase ==
    [i \in 1..Len(DemoUsers) |->
        [id |-> i, email |-> DemoUsers[i].email,
         password_hash |-> HashPw(DemoUsers[i].password, i),
         name |-> DemoUsers[i].name, role |-> DemoUsers[i].role,
         is_active |-> TRUE, last_login |-> -1]]

\* str(id) and int(sub) for the ids of the table
Decimal == <<"1", "2", "3">>
StrOf(i) == Decimal[i]
IntOf(str) == CHOOSE i \in 1..Len(Decimal) : Decimal[i] = str

NoToken == [sub |-> "", exp |-> -1, sig |-> "none"]
NoUser == [id |-> 0, email |-> "", name |-> "", role |-> ""]

\* create_access_token: the payload, exp = utcnow + JWT_EXPIRATION_HOURS,
\* signed with JWT_SECRET
CreateAccessToken(sub, t) ==
    [sub |-> sub, exp |-> t + JWT_EXPIRATION_HOURS, sig |-> "JWT_SECRET"]

\* SELECT ... FROM users WHERE email = ? AND is_active = TRUE
RowsByEmail(tbl, email) ==
    {i \in 1..Len(tbl) : tbl[i].email = email /\ tbl[i].is_active}

\* a lookup that returns the first active user whatever the id
FirstActiveRow(tbl, id) == {i \in 1..Len(tbl) : i = 1 /\ tbl[i].is_active}

\* SELECT ... FROM users WHERE id = ? AND is_active = TRUE
RowsById(tbl, id) ==
    {i \in 1..Len(tbl) : tbl[i].id = id /\ tbl[i].is_active}

UserResponse(row) ==
    [id |-> row.id, email |-> row.email, name |-> row.name, role |-> row.role]

\* verify_token: jwt.decode checks the signature and exp, then int(sub);
\* 0 stands for the 401 it raises
VerifyToken(tok, t) ==
    IF tok.sig # "JWT_SECRET" \/ tok.exp < t \/ tok.sub = "" THEN 0 ELSE IntOf(tok.sub)

Response(endpoint, email, password, tok, status, body) ==
    [endpoint |-> endpoint, email |-> email, password |-> password, token |-> tok,
     status |-> status, body |-> body]

LoginBody(tok, user) ==
    [access_token |-> tok, token_type |-> "bearer",
     expires_in |-> JWT_EXPIRATION_HOURS * 3600, user |-> user]

NoBody == [access_token |-> NoToken, token_type |-> "", expires_in |-> 0, user |-> NoUser]

Emails == {DemoUsers[i].email : i \in 1..Len(DemoUsers)} \cup {"invalid@example.com"}
Passwords == {DemoUsers[i].password : i \in 1..Len(DemoUsers)} \cup {"wrongpassword"}

\* tokens a client can present: the ones it was given, and ones it signed
\* itself
ForgedTokens == {[sub |-> StrOf(i), exp |-> MaxClock + JWT_EXPIRATION_HOURS, sig |-> "forged"] :
                    i \in 1..Len(DemoUsers)}

\* the endpoints that depend on get_current_user
ProtectedEndpoints ==
    {"/api/v1/auth/me", "/api/v1/users/profile", "/api/v1/datasets",
     "/api/v1/models", "/api/v1/dashboards", "/api/v1/metrics"}

\* SELECT statements in the body of each endpoint's handler
HandlerQueries(ep) ==
    CASE ep \in {"/api/v1/auth/me", "/api/v1/users/profile"} -> 0
      [] ep = "/api/v1/metrics" -> 3
      [] OTHER -> 1

\* a bearer scheme that passes a request without credentials on
HTTPBearerNoAutoError(hasCredentials) == 0

\* security = HTTPBearer(): a request without bearer credentials is answered
\* 403 before any dependency runs; 0 stands for passing the credentials on
HTTPBearer(hasCredentials) == IF hasCredentials THEN 0 ELSE 403

NotServed ==
    [endpoint |-> "none", hasCredentials |-> FALSE, status |-> 0,
     handlerRan |-> FALSE, dbQueries |-> 0, data |-> FALSE]

\* the dependency chain security -> verify_token -> get_current_user ->
\* handler, for one request
ServeProtected(tbl, t, ep, hasCredentials, tok) ==
    LET req == [NotServed EXCEPT !.endpoint = ep, !.hasCredentials = hasCredentials]
        id == VerifyToken(tok, t)
    IN  IF HTTPBearer(hasCredentials) # 0
        THEN [req EXCEPT !.status = HTTPBearer(hasCredentials)]
        ELSE IF id = 0
        THEN [req EXCEPT !.status = 401]
        ELSE IF RowsById(tbl, id) = {}
        THEN [req EXCEPT !.status = 404, !.dbQueries = 1]
        ELSE [req EXCEPT !.status = 200, !.handlerRan = TRUE,
                         !.dbQueries = 1 + HandlerQueries(ep), !.data = TRUE]

AuthInit ==
    /\ users = InitDatabase
    /\ now = 0
    /\ issued = {}
    /\ resp = Response("none", "", "", NoToken, 0, NoBody)
    /\ served = NotServed

\* whether login's credential check lets the request through
CredentialsAccepted(tbl, email, password) ==
    /\ RowsByEmail(tbl, email) # {}
    /\ \E i \in RowsByEmail(tbl, email) : CheckPw(password, tbl[i].password_hash)

\* POST /api/v1/auth/login
Login ==
    /\ Cardinality(issued) < MaxTokens
    /\ \E email \in Emails, password \in Passwords :
        IF ~CredentialsAccepted(users, email, password)
        THEN /\ resp' = Response("login", email, password, NoToken, 401, NoBody)
             /\ UNCHANGED <<users, issued>>
        ELSE LET i == CHOOSE j \in RowsByEmail(users, email) : TRUE
                 tok == CreateAccessToken(StrOf(users[i].id), now)
             IN  /\ users' = [users EXCEPT ![i].last_login = now]
                 /\ issued' = issued \cup
                        {[token |-> tok, email |-> email, password |-> password]}
                 /\ resp' = Response("login", email, password, NoToken, 200,
                                     LoginBody(tok, UserResponse(users[i])))
    /\ UNCHANGED <<now, served, notAuth>>

\* GET /api/v1/auth/me with a bearer token
Me ==
    /\ \E tok \in {r.token : r \in issued} \cup ForgedTokens :
        LET id == VerifyToken(tok, now) IN
        IF id = 0
        THEN resp' = Response("me", "", "", tok, 401, NoBody)
        ELSE IF RowsById(users, id) = {}
        THEN resp' = Response("me", "", "", tok, 404, NoBody)
        ELSE LET i == CHOOSE j \in RowsById(users, id) : TRUE IN
             resp' = Response("me", "", "", tok, 200,
                              [NoBody EXCEPT !.user = UserResponse(users[i])])
    /\ UNCHANGED <<users, now, issued, served, notAuth>>

\* time passes
Tick ==
    /\ now + ClockStep <= MaxClock
    /\ now' = now + ClockStep
    /\ UNCHANGED <<users, issued, resp, served, notAuth>>

\* GET of a protected endpoint, with or without a bearer token
GetProtected ==
    /\ \E ep \in ProtectedEndpoints, hasCredentials \in BOOLEAN,
          tok \in {r.token : r \in issued} \cup ForgedTokens :
          served' = ServeProtected(users, now, ep, hasCredentials,
                                   IF hasCredentials THEN tok ELSE NoToken)
    /\ UNCHANGED <<users, now, issued, resp, notAuth>>

AuthNext == Login \/ Me \/ Tick \/ GetProtected

(* ---------------------------------------------------------------------- *)
(* Browser session of app_with_backend and app_fixed                        *)
(* ---------------------------------------------------------------------- *)

SessMaxClock == 3

\* lifetime of a token on the frontend clock (result["expires_in"])
SessExpiresIn == 2

\* what st.session_state.get("token_expires") stands for when the key is
\* missing
AbsentTime == -1

\* a session with none of the keys
NoSession ==
    [access_token |-> FALSE, current_user |-> "absent", token_expires |-> AbsentTime,
     authenticated |-> "absent", backend_mode |-> "absent"]

\* the local user database of app_fixed
ENTERPRISE_USERS ==
    ("admin@astralytiq.com" :> [password |-> "admin123", role |-> "Platform Admin"])
    @@ ("data.scientist@astralytiq.com" :> [password |-> "ds123", role |-> "Senior Data Scientist"])
    @@ ("analyst@astralytiq.com" :> [password |-> "analyst123", role |-> "Business Analyst"])

Outcome(s, res, raised) == [session |-> s, result |-> res, raised |-> raised]

\* is_authenticated(): raised stands for the KeyError of a del on a
\* missing key
IsAuthenticated(s, t) ==
    IF ~s.access_token THEN Outcome(s, FALSE, FALSE)
    ELSE IF s.token_expires # AbsentTime /\ t > s.token_expires
    THEN IF s.current_user = "absent"
         THEN Outcome([s EXCEPT !.access_token = FALSE], FALSE, TRUE)
         ELSE Outcome([s EXCEPT !.access_token = FALSE, !.current_user = "absent",
                                !.token_expires = AbsentTime], FALSE, FALSE)
    ELSE Outcome(s, TRUE, FALSE)

\* a 401 handler that forgets the user but keeps the token
Handle401KeepsToken(s) ==
    IF ~s.access_token THEN Outcome(s, "rerun", FALSE)
    ELSE Outcome([s EXCEPT !.current_user = "absent"], "rerun", FALSE)

\* _handle_response on a 401: the two del statements, then st.rerun()
Handle401(s) ==
    IF ~s.access_token THEN Outcome(s, "rerun", FALSE)
    ELSE IF s.current_user = "absent"
    THEN Outcome([s EXCEPT !.access_token = FALSE], "error", TRUE)
    ELSE Outcome([s EXCEPT !.access_token = FALSE, !.current_user = "absent"],
                 "rerun", FALSE)

\* what POST /api/v1/auth/login does to the client: a token, a 401, or no
\* connection
BackendLogin(up, email, password) ==
    IF ~up THEN "unavailable"
    ELSE IF CredentialsAccepted(InitDatabase, email, password) THEN "ok"
    ELSE "rejected"

\* authenticate_user(email, password)
AuthenticateUser(s, t, email, backend) ==
    CASE backend = "ok" ->
            Outcome([s EXCEPT !.access_token = TRUE, !.current_user = email,
                              !.token_expires = t + SessExpiresIn], "True", FALSE)
      [] backend = "rejected" -> Handle401(s)
      [] OTHER -> Outcome(s, "False", FALSE)

\* logout_user()
LogoutUser(s) ==
    [s EXCEPT !.access_token = FALSE, !.current_user = "absent",
              !.token_expires = AbsentTime]

\* the session state initialization at the top of app_fixed
InitSessionState(s, connected) ==
    [s EXCEPT !.authenticated = IF @ = "absent" THEN "False" ELSE @,
              !.current_user = IF @ = "absent" THEN "None" ELSE @,
              !.backend_mode = IF @ # "absent" THEN @
                               ELSE IF connected THEN "True" ELSE "False"]

\* app_with_backend.main up to the gate
MainWithBackend(s, t) ==
    LET a == IsAuthenticated(s, t) IN
    [session |-> a.session,
     view |-> IF a.raised THEN "exception"
              ELSE IF a.result THEN "pages" ELSE "login_form"]

\* app_fixed, from the top of the script to the gate of main; the login
\* form turns backend mode on when the backend answers
MainFixed(s, connected) ==
    LET s1 == InitSessionState(s, connected) IN
    IF s1.authenticated = "True" THEN [session |-> s1, view |-> "pages"]
    ELSE [session |-> [s1 EXCEPT !.backend_mode = IF connected THEN "True" ELSE @],
          view |-> "login_form"]

MainOf(a, s, t, connected) ==
    IF a = "app_with_backend" THEN MainWithBackend(s, t) ELSE MainFixed(s, connected)

LocalMatch(email, password) ==
    email \in DOMAIN ENTERPRISE_USERS /\ ENTERPRISE_USERS[email].password = password

\* the login branch of show_enterprise_login
EnterpriseSignIn(s, t, email, password, backend) ==
    IF s.backend_mode = "True"
    THEN LET a == AuthenticateUser(s, t, email, backend) IN
         IF a.result = "True"
         THEN Outcome([a.session EXCEPT !.authenticated = "True"], "rerun", FALSE)
         ELSE a
    ELSE IF LocalMatch(email, password)
    THEN Outcome([s EXCEPT !.authenticated = "True", !.current_user = email],
                 "rerun", FALSE)
    ELSE Outcome(s, "False", FALSE)

\* the logout button of app_fixed.show_user_profile
EnterpriseLogout(s, t) ==
    LET a == IsAuthenticated(s, t)
        s1 == IF s.backend_mode # "True" THEN s
              ELSE IF a.result THEN LogoutUser(a.session) ELSE a.session
    IN  [s1 EXCEPT !.authenticated = "False", !.current_user = "None"]

NoLast ==
    [op |-> "none", hadToken |-> FALSE, backendOn |-> FALSE, localMatch |-> FALSE,
     backend |-> "none", after |-> NoSession]

SessInit ==
    /\ app = "none"
    /\ session = NoSession
    /\ wall = 0
    /\ view = "none"
    /\ last = NoLast

\* the script reruns from s; the rerun sees the backend as connected or not
RerunFrom(s, connected) ==
    /\ session' = MainOf(app, s, wall, connected).session
    /\ view' = MainOf(app, s, wall, connected).view

\* the frontend clock advances
SessTick ==
    /\ wall < SessMaxClock
    /\ wall' = wall + 1
    /\ UNCHANGED <<app, session, view, last, notSess>>

\* the browser opens one of the two apps: the first run of its script
OpenApp ==
    /\ app = "none"
    /\ \E a \in {"app_with_backend", "app_fixed"}, connected \in BOOLEAN :
        /\ app' = a
        /\ session' = MainOf(a, session, wall, connected).session
        /\ view' = MainOf(a, session, wall, connected).view
    /\ last' = [NoLast EXCEPT !.op = "run"]
    /\ UNCHANGED <<wall, notSess>>

\* the page is reloaded, or a widget without session effect is used
RunMain ==
    /\ app # "none"
    /\ \E connected \in BOOLEAN : RerunFrom(session, connected)
    /\ last' = [NoLast EXCEPT !.op = "run"]
    /\ UNCHANGED <<app, wall, notSess>>

\* "Sign In" on enhanced_login_form
SignIn ==
    /\ app = "app_with_backend" /\ view = "login_form"
    /\ \E email \in Emails, password \in Passwords, up \in BOOLEAN :
        LET m == MainWithBackend(session, wall)
            a == AuthenticateUser(m.session, wall, email,
                                  BackendLogin(up, email, password))
        IN  /\ m.view = "login_form"
            /\ RerunFrom(a.session, up)
            /\ last' = [NoLast EXCEPT !.op = "sign_in",
                                      !.hadToken = m.session.access_token,
                                      !.backend = BackendLogin(up, email, password),
                                      !.after = a.session]
    /\ UNCHANGED <<app, wall, notSess>>

\* "Demo Mode" on enhanced_login_form
ClickDemoMode ==
    /\ app = "app_with_backend" /\ view = "login_form"
    /\ LET m == MainWithBackend(session, wall)
           s1 == [m.session EXCEPT !.authenticated = "True",
                                   !.current_user = "demo@astralytiq.com"]
       IN  /\ m.view = "login_form"
           /\ \E connected \in BOOLEAN : RerunFrom(s1, connected)
           /\ last' = [NoLast EXCEPT !.op = "demo_mode", !.after = s1]
    /\ UNCHANGED <<app, wall, notSess>>

\* "Logout" in the sidebar of app_with_backend
Logout ==
    /\ app = "app_with_backend" /\ view = "pages"
    /\ LET m == MainWithBackend(session, wall) IN
           /\ m.view = "pages"
           /\ \E connected \in BOOLEAN : RerunFrom(LogoutUser(m.session), connected)
           /\ last' = [NoLast EXCEPT !.op = "logout",
                                     !.hadToken = m.session.access_token,
                                     !.after = LogoutUser(m.session)]
    /\ UNCHANGED <<app, wall, notSess>>

\* a page fetches from the backend (get_cached_datasets and the like) and
\* the backend answers 200 or 401
FetchCached ==
    /\ view = "pages"
    /\ \E connected \in BOOLEAN, status \in {200, 401} :
        LET m == MainOf(app, session, wall, connected)
            a == IsAuthenticated(m.session, wall)
            h == Handle401(a.session)
        IN  /\ m.view = "pages"
            /\ app = "app_fixed" => m.session.backend_mode = "True"
            /\ a.result
            /\ IF status = 401
               THEN /\ RerunFrom(h.session, connected)
                    /\ last' = [NoLast EXCEPT !.op = "handle_401",
                                              !.hadToken = a.session.access_token,
                                              !.after = h.session]
               ELSE /\ session' = a.session
                    /\ view' = "pages"
                    /\ last' = [NoLast EXCEPT !.op = "fetch"]
    /\ UNCHANGED <<app, wall, notSess>>

\* "Sign In" on show_enterprise_login
EnterpriseSignInClick ==
    /\ app = "app_fixed" /\ view = "login_form"
    /\ \E email \in Emails, password \in Passwords,
          connected \in BOOLEAN, up \in BOOLEAN :
        LET m == MainFixed(session, connected)
            a == EnterpriseSignIn(m.session, wall, email, password,
                                  BackendLogin(up, email, password))
        IN  /\ m.view = "login_form"
            /\ IF a.result = "rerun"
               THEN RerunFrom(a.session, up)
               ELSE session' = a.session /\ view' = "login_form"
            /\ last' = [op |-> IF m.session.backend_mode = "True"
                                   /\ BackendLogin(up, email, password) = "rejected"
                               THEN "handle_401" ELSE "enterprise_sign_in",
                        hadToken |-> m.session.access_token,
                        backendOn |-> m.session.backend_mode = "True",
                        localMatch |-> LocalMatch(email, password),
                        backend |-> BackendLogin(up, email, password),
                        after |-> a.session]
    /\ UNCHANGED <<app, wall, notSess>>

\* "Demo Access" on show_enterprise_login
EnterpriseDemo ==
    /\ app = "app_fixed" /\ view = "login_form"
    /\ \E connected \in BOOLEAN :
        LET m == MainFixed(session, connected)
            s1 == [m.session EXCEPT !.authenticated = "True",
                                    !.current_user = "admin@astralytiq.com"]
        IN  /\ m.view = "login_form"
            /\ RerunFrom(s1, connected)
            /\ last' = [NoLast EXCEPT !.op = "demo_access", !.after = s1]
    /\ UNCHANGED <<app, wall, notSess>>

\* "Logout" in the sidebar of app_fixed
EnterpriseLogoutClick ==
    /\ app = "app_fixed" /\ view = "pages"
    /\ \E connected \in BOOLEAN :
        LET m == MainFixed(session, connected) IN
            /\ m.view = "pages"
            /\ RerunFrom(EnterpriseLogout(m.session, wall), connected)
            /\ last' = [NoLast EXCEPT !.op = "enterprise_logout",
                                      !.hadToken = m.session.access_token,
                                      !.after = EnterpriseLogout(m.session, wall)]
    /\ UNCHANGED <<app, wall, notSess>>

\* "Retry Backend Connection" in the sidebar of app_fixed
RetryBackend ==
    /\ app = "app_fixed" /\ view = "pages"
    /\ \E connected \in BOOLEAN :
        LET m == MainFixed(session, connected)
            s1 == [m.session EXCEPT !.backend_mode = IF connected THEN "True" ELSE "False"]
        IN  /\ m.view = "pages"
            /\ m.session.backend_mode = "False" \/ ~connected
            /\ RerunFrom(s1, connected)
            /\ last' = [NoLast EXCEPT !.op = "retry_backend", !.after = s1]
    /\ UNCHANGED <<app, wall, notSess>>

SessNext ==
    \/ OpenApp \/ SessTick \/ RunMain \/ SignIn \/ ClickDemoMode \/ Logout \/ FetchCached
    \/ EnterpriseSignInClick \/ EnterpriseDemo \/ EnterpriseLogoutClick
    \/ RetryBackend

(* ---------------------------------------------------------------------- *)
(* Accounts of app_modular: register_user and authenticate_user             *)
(* ---------------------------------------------------------------------- *)

MaxRegistrations == 3

\* utils.auth_utils.DEMO_USERS as the module defines it; app.DEMO_USERS
\* holds the same entries and is never written
DEMO_USERS ==
    ("demo@astralytiq.com" :> [password |-> "demo123", name |-> "Demo User"])
    @@ ("john@company.com" :> [password |-> "password123", name |-> "John Doe"])
    @@ ("jane@company.com" :> [password |-> "password123", name |-> "Jane Smith"])

\* None
UserNone == [email |-> "", name |-> ""]

UserOf(email, name) == [email |-> email, name |-> name]

\* the first successful registration of an email, if it is not yet noted
NoteFirst(st, email, password, name) ==
    IF email \in DOMAIN st.first THEN st
    ELSE [st EXCEPT !.first = @ @@ (email :> [password |-> password, name |-> name])]

\* SupabaseAuth.sign_up: None when the service refuses (the email has an
\* account) or cannot be reached
SupabaseSignUp(st, email, password, name, reachable) ==
    IF reachable /\ email \notin DOMAIN st.supabase
    THEN [user |-> UserOf(email, name),
          st |-> [st EXCEPT !.supabase = @ @@ (email :> [password |-> password, name |-> name])]]
    ELSE [user |-> UserNone, st |-> st]

\* SupabaseAuth.sign_in
SupabaseSignIn(st, email, password) ==
    IF email \in DOMAIN st.supabase /\ st.supabase[email].password = password
    THEN UserOf(email, st.supabase[email].name)
    ELSE UserNone

\* AuthManager.register: Supabase when enabled, else a new entry user_<n+1>
\* of the local storage
ManagerRegister(mgr, st, email, password, name, reachable) ==
    IF mgr = "supabase" THEN SupabaseSignUp(st, email, password, name, reachable)
    ELSE [user |-> UserOf(email, name),
          st |-> [st EXCEPT !.local = Append(@, [id |-> Len(@) + 1, email |-> email,
                                                name |-> name])]]

\* register_user(name, email, password, role, level, auth_manager)
RegisterUser(mgr, st, email, password, name, reachable) ==
    LET m == ManagerRegister(mgr, st, email, password, name, reachable) IN
    IF mgr # "none" /\ m.user # UserNone THEN m
    ELSE IF email \notin DOMAIN st.demo
    THEN [user |-> UserOf(email, name),
          st |-> [st EXCEPT !.demo = @ @@ (email :> [password |-> password, name |-> name])]]
    ELSE [user |-> UserNone, st |-> st]

\* app.authenticate_user, which AuthManager.authenticate imports: the check
\* against app.DEMO_USERS
AppAuthenticateUser(email, password) ==
    IF email \in DOMAIN DEMO_USERS /\ DEMO_USERS[email].password = password
    THEN UserOf(email, DEMO_USERS[email].name)
    ELSE UserNone

\* AuthManager.authenticate
ManagerAuthenticate(mgr, st, email, password) ==
    IF mgr = "supabase" /\ SupabaseSignIn(st, email, password) # UserNone
    THEN SupabaseSignIn(st, email, password)
    ELSE AppAuthenticateUser(email, password)

\* utils.auth_utils.authenticate_user(email, password, auth_manager)
AuthUtilsAuthenticateUser(mgr, st, email, password) ==
    IF mgr # "none" /\ ManagerAuthenticate(mgr, st, email, password) # UserNone
    THEN ManagerAuthenticate(mgr, st, email, password)
    ELSE IF email \in DOMAIN st.demo /\ st.demo[email].password = password
    THEN UserOf(email, st.demo[email].name)
    ELSE UserNone

NoStores == [demo |-> DEMO_USERS, local |-> <<>>, supabase |-> <<>>, first |-> <<>>]

NoReg ==
    [op |-> "none", email |-> "", password |-> "", name |-> "", user |-> UserNone,
     before |-> NoStores]

RegInit ==
    /\ manager = "unset"
    /\ stores = NoStores
    /\ reg = NoReg

Registrations(st) ==
    Len(st.local) + Cardinality(DOMAIN st.supabase)
    + Cardinality(DOMAIN st.demo \ DOMAIN DEMO_USERS)

\* app_modular starts: AuthManager cannot be imported, or it is built with
\* its Supabase client enabled or not
StartModular ==
    /\ manager = "unset"
    /\ manager' \in {"none", "local", "supabase"}
    /\ UNCHANGED <<stores, reg, notReg>>

\* the sign-up form is submitted with fields that pass its validation
SignUp ==
    /\ manager # "unset"
    /\ Registrations(stores) < MaxRegistrations
    /\ \E email \in {"new@company.com", "demo@astralytiq.com"},
          password \in {"secret1", "secret2"}, name \in {"Ann", "Bob"},
          reachable \in BOOLEAN :
        LET r == RegisterUser(manager, stores, email, password, name, reachable) IN
        /\ stores' = IF r.user = UserNone THEN r.st
                     ELSE NoteFirst(r.st, email, password, name)
        /\ reg' = [op |-> "register", email |-> email, password |-> password,
                   name |-> name, user |-> r.user, before |-> stores]
    /\ UNCHANGED <<manager, notReg>>

\* the login form is submitted
ModularSignIn ==
    /\ manager # "unset"
    /\ \E email \in {"new@company.com", "demo@astralytiq.com"},
          password \in {"secret1", "secret2", "demo123"} :
        reg' = [NoReg EXCEPT !.op = "authenticate", !.email = email,
                             !.password = password,
                             !.user = AuthUtilsAuthenticateUser(manager, stores,
                                                                email, password),
                             !.before = stores]
    /\ UNCHANGED <<manager, stores, notReg>>

RegNext == StartModular \/ SignUp \/ ModularSignIn

(* ---------------------------------------------------------------------- *)
(* Backend: ConnectionManager of /ws/dashboard                              *)
(* ---------------------------------------------------------------------- *)

MaxConnections == 3

Connections == 1..MaxConnections

ElemsOf(list) == {list[i] : i \in 1..Len(list)}

\* list.remove(x): the first occurrence goes
ListRemove(list, x) ==
    LET k == CHOOSE j \in 1..Len(list) :
                 list[j] = x /\ \A h \in 1..(j - 1) : list[h] # x
    IN  SubSeq(list, 1, k - 1) \o SubSeq(list, k + 1, Len(list))

\* the for loop of broadcast from position i of the list iterator: the
\* iterator reads list[i] of the list as it is now, and stops when i is
\* past its end
RECURSIVE BroadcastFrom(_, _, _, _)
BroadcastFrom(list, i, attempted, failing) ==
    IF i > Len(list) THEN [after |-> list, attempted |-> attempted]
    ELSE IF list[i] \in failing
    THEN BroadcastFrom(ListRemove(list, list[i]), i + 1, Append(attempted, list[i]), failing)
    ELSE BroadcastFrom(list, i + 1, Append(attempted, list[i]), failing)

NoBroadcast ==
    [done |-> FALSE, start |-> <<>>, failing |-> {}, attempted |-> <<>>, after |-> <<>>]

WsInit ==
    /\ active_connections = <<>>
    /\ dead = {}
    /\ bcast = NoBroadcast

\* ConnectionManager.connect: a new websocket is accepted and appended
Connect ==
    /\ \E c \in Connections \ ElemsOf(active_connections) :
        /\ active_connections' = Append(active_connections, c)
        /\ dead' = dead \ {c}
    /\ UNCHANGED <<bcast, notWs>>

\* ConnectionManager.disconnect, from websocket_endpoint on
\* WebSocketDisconnect
Disconnect ==
    /\ \E c \in ElemsOf(active_connections) :
        /\ active_connections' = ListRemove(active_connections, c)
        /\ dead' = dead \ {c}
    /\ UNCHANGED <<bcast, notWs>>

\* the peer of a connection goes away without a disconnect being handled
Die ==
    /\ \E c \in ElemsOf(active_connections) \ dead : dead' = dead \cup {c}
    /\ UNCHANGED <<active_connections, bcast, notWs>>

\* one manager.broadcast(message) of broadcast_metrics, with the connections
\* held as they are for its duration
Broadcast ==
    /\ LET b == BroadcastFrom(active_connections, 1, <<>>, dead) IN
        /\ active_connections' = b.after
        /\ bcast' = [done |-> TRUE, start |-> active_connections, failing |-> dead,
                     attempted |-> b.attempted, after |-> b.after]
    /\ UNCHANGED <<dead, notWs>>

WsNext == Connect \/ Disconnect \/ Die \/ Broadcast

(* ---------------------------------------------------------------------- *)
(* start_full_stack: main and monitor_processes                             *)
(* ---------------------------------------------------------------------- *)

MaxDeaths == 4

\* the while loop of monitor_processes is running
Monitoring == mpc \in {"sleep", "check_backend", "check_frontend", "check_both"}

\* process.poll() is not None, for a handle that is a process
Exited(handle, alive) == handle = "proc" /\ ~alive

MonInit ==
    /\ mpc = "main"
    /\ backend_process = "none"
    /\ frontend_process = "none"
    /\ backend_alive = FALSE
    /\ frontend_alive = FALSE
    /\ deaths = 0

\* main: start the backend, then the frontend; without either there is no
\* monitoring
MonMain ==
    /\ mpc = "main"
    /\ \E b \in BOOLEAN, f \in BOOLEAN :
        IF b /\ f
        THEN /\ mpc' = "sleep"
             /\ backend_process' = "proc" /\ frontend_process' = "proc"
             /\ backend_alive' = TRUE /\ frontend_alive' = TRUE
        ELSE /\ mpc' = "exited"
             /\ UNCHANGED <<backend_process, frontend_process, backend_alive,
                            frontend_alive>>
    /\ UNCHANGED <<deaths, notMon>>

\* time.sleep(5) returns
Wake ==
    /\ mpc = "sleep"
    /\ mpc' = "check_backend"
    /\ UNCHANGED <<backend_process, frontend_process, backend_alive,
                   frontend_alive, deaths, notMon>>

\* "if backend_process and backend_process.poll() is not None" is false
BackendPasses ==
    /\ mpc = "check_backend"
    /\ ~Exited(backend_process, backend_alive)
    /\ mpc' = "check_frontend"
    /\ UNCHANGED <<backend_process, frontend_process, backend_alive,
                   frontend_alive, deaths, notMon>>

\* backend_process = start_backend(), which returns the new process
RestartBackendOk ==
    /\ mpc = "check_backend"
    /\ Exited(backend_process, backend_alive)
    /\ backend_process' = "proc"
    /\ backend_alive' = TRUE
    /\ mpc' = "check_frontend"
    /\ UNCHANGED <<frontend_process, frontend_alive, deaths, notMon>>

\* backend_process = start_backend(), which returns None
RestartBackendFails ==
    /\ mpc = "check_backend"
    /\ Exited(backend_process, backend_alive)
    /\ backend_process' = "none"
    /\ mpc' = "check_frontend"
    /\ UNCHANGED <<frontend_process, backend_alive, frontend_alive, deaths, notMon>>

\* "if frontend_process and frontend_process.poll() is not None" is false
FrontendPasses ==
    /\ mpc = "check_frontend"
    /\ ~Exited(frontend_process, frontend_alive)
    /\ mpc' = "check_both"
    /\ UNCHANGED <<backend_process, frontend_process, backend_alive,
                   frontend_alive, deaths, notMon>>

\* frontend_process = start_frontend(), which returns the new process
RestartFrontendOk ==
    /\ mpc = "check_frontend"
    /\ Exited(frontend_process, frontend_alive)
    /\ frontend_process' = "proc"
    /\ frontend_alive' = TRUE
    /\ mpc' = "check_both"
    /\ UNCHANGED <<backend_process, backend_alive, deaths, notMon>>

\* frontend_process = start_frontend(), which returns None
RestartFrontendFails ==
    /\ mpc = "check_frontend"
    /\ Exited(frontend_process, frontend_alive)
    /\ frontend_process' = "none"
    /\ mpc' = "check_both"
    /\ UNCHANGED <<backend_process, backend_alive, frontend_alive, deaths, notMon>>

\* "if not backend_process and not frontend_process: break"
CheckBoth ==
    /\ mpc = "check_both"
    /\ mpc' = IF backend_process = "none" /\ frontend_process = "none"
              THEN "exited" ELSE "sleep"
    /\ UNCHANGED <<backend_process, frontend_process, backend_alive,
                   frontend_alive, deaths, notMon>>

\* the backend process dies
BackendDies ==
    /\ Monitoring /\ backend_alive /\ deaths < MaxDeaths
    /\ backend_alive' = FALSE
    /\ deaths' = deaths + 1
    /\ UNCHANGED <<mpc, backend_process, frontend_process, frontend_alive, notMon>>

\* the frontend process dies
FrontendDies ==
    /\ Monitoring /\ frontend_alive /\ deaths < MaxDeaths
    /\ frontend_alive' = FALSE
    /\ deaths' = deaths + 1
    /\ UNCHANGED <<mpc, backend_process, frontend_process, backend_alive, notMon>>

\* KeyboardInterrupt: the processes still held are terminated
Interrupt ==
    /\ Monitoring
    /\ mpc' = "stopped"
    /\ backend_alive' = (backend_alive /\ backend_process = "none")
    /\ frontend_alive' = (frontend_alive /\ frontend_process = "none")
    /\ UNCHANGED <<backend_process, frontend_process, deaths, notMon>>

\* the steps of the monitor loop
MonitorStep ==
    \/ Wake \/ BackendPasses \/ RestartBackendOk \/ RestartBackendFails
    \/ FrontendPasses \/ RestartFrontendOk \/ RestartFrontendFails \/ CheckBoth

MonNext == MonMain \/ MonitorStep \/ BackendDies \/ FrontendDies \/ Interrupt

(* ---------------------------------------------------------------------- *)
(* scripts/deploy.py: main                                                  *)
(* ---------------------------------------------------------------------- *)

Targets == {"docker", "compose", "k8s", "streamlit"}

NoArgs == [target |-> "none", no_build |-> FALSE, no_tests |-> FALSE]

NoLog ==
    [smoke |-> "none", built |-> FALSE, deployed |-> FALSE, health |-> "none",
     success_printed |-> FALSE]

DepInit ==
    /\ dpc = "args"
    /\ dargs = NoArgs
    /\ dlog = NoLog

\* parser.parse_args()
ParseArgs ==
    /\ dpc = "args"
    /\ \E t \in Targets, nb \in BOOLEAN, nt \in BOOLEAN :
        dargs' = [target |-> t, no_build |-> nb, no_tests |-> nt]
    /\ dpc' = "tests"
    /\ UNCHANGED <<dlog, notDep>>

\* run_smoke_tests() unless --no-tests; a failure is sys.exit(1)
SmokeTests ==
    /\ dpc = "tests"
    /\ IF dargs.no_tests
       THEN dpc' = "deploy" /\ dlog' = [dlog EXCEPT !.smoke = "skipped"]
       ELSE \E ok \in BOOLEAN :
               /\ dpc' = IF ok THEN "deploy" ELSE "exit1"
               /\ dlog' = [dlog EXCEPT !.smoke = IF ok THEN "passed" ELSE "failed"]
    /\ UNCHANGED <<dargs, notDep>>

\* the branch of the chosen target up to its health check: the image build
\* (not for streamlit, not with --no-build), then docker run, compose up,
\* kubectl apply or git push; a failing command is sys.exit(1)
DeployTarget ==
    /\ dpc = "deploy"
    /\ \E buildOk \in BOOLEAN, deployOk \in BOOLEAN :
        LET builds == dargs.target # "streamlit" /\ ~dargs.no_build IN
        IF builds /\ ~buildOk
        THEN dpc' = "exit1" /\ UNCHANGED dlog
        ELSE IF ~deployOk
        THEN dpc' = "exit1" /\ dlog' = [dlog EXCEPT !.built = builds]
        ELSE /\ dpc' = IF dargs.target \in {"docker", "compose"}
                       THEN "health" ELSE "report"
             /\ dlog' = [dlog EXCEPT !.built = builds, !.deployed = TRUE]
    /\ UNCHANGED <<dargs, notDep>>

\* run_health_check() as main calls it: as a statement
HealthCheck ==
    /\ dpc = "health"
    /\ \E h \in {"passed", "failed", "skipped"} :
        dlog' = [dlog EXCEPT !.health = h]
    /\ dpc' = "report"
    /\ UNCHANGED <<dargs, notDep>>

\* print("Deployment completed successfully!") and the access information
Report ==
    /\ dpc = "report"
    /\ dlog' = [dlog EXCEPT !.success_printed = TRUE]
    /\ dpc' = "done"
    /\ UNCHANGED <<dargs, notDep>>

DepNext == ParseArgs \/ SmokeTests \/ DeployTarget \/ HealthCheck \/ Report

Init ==
    /\ UiInit /\ EngInit /\ AuthInit /\ SessInit /\ RegInit /\ WsInit /\ MonInit
    /\ DepInit

Next == UiNext

Spec == Init /\ [][Next]_vars

NextCall == UiNext \/ CallTrainForecastModel

SpecCall == Init /\ [][NextCall]_vars

SpecEngine == Init /\ [][EngNext]_vars

SpecAuth == Init /\ [][AuthNext]_vars

SpecSession == Init /\ [][SessNext]_vars

SpecRegister == Init /\ [][RegNext]_vars

SpecBroadcast == Init /\ [][WsNext]_vars

SpecDeploy == Init /\ [][DepNext]_vars

\* the launcher keeps running (the loop does not stall between steps), and a
\* restart that is attempted again and again succeeds at some point
SpecMonitorFair ==
    /\ Init /\ [][MonNext]_vars
    /\ WF_vars(MonitorStep)
    /\ SF_vars(RestartBackendOk)
    /\ SF_vars(RestartFrontendOk)

(* ---------------------------------------------------------------------- *)
(* Claims on the forecast-training page                                    *)
(* ---------------------------------------------------------------------- *)

ErrorShown(r) ==
    r.shown \cap {"error:upload error", "error:upload failed", "error:training error",
                  "error:training failed", "error:checking status",
                  "error:validating data"} # {}

CompletionShown(r) ==
    r.shown \cap {"success:training completed",
                  "success:training completed (simulated)", "metrics"} # {}

\* C2: a training request that no real model fit carried out (no access
\* token, upload failure, training failure, status error) shows an error and
\* shows neither a "training completed" message nor model metrics.
C2_NoSubstituteForecast ==
    run.outcome \in {"no_token", "upload_failure", "training_failure", "status_error"}
        => ErrorShown(run) /\ ~CompletionShown(run)

\* C3: in a script run where validation of the selected columns fails,
\* train_forecast_model is not invoked and no client call is made.
C3_ValidationFailureAborts ==
    run.validation = "failed" => ~run.trainInvoked /\ run.calls = <<>>

C3_Witness ==
    /\ uploaded_file.present
    /\ run.validation = "failed"
    /\ "error:validating data" \in run.shown
    /\ ~run.buttonRendered

HasMalformedDate(rows) == \E i \in 1..Len(rows) : rows[i].date.k = "bad"

\* C4: a table with at least one valid row and some malformed date entries
\* is ingested without an error (the malformed entries become missing).
C4_MalformedDatesBecomeMissing ==
    (/\ uploaded_file.present
     /\ NumValid(uploaded_file.rows) >= 1
     /\ HasMalformedDate(uploaded_file.rows)
     /\ IsNumericDtype(uploaded_file.rows))
        => run.validation = "ok"

\* C6: when no row has both a date and a target value, ingestion signals a
\* validation error and no training request is made on that input.
C6_NoValidRowsRejected ==
    (uploaded_file.present /\ NumValid(uploaded_file.rows) = 0)
        => run.validation = "failed" /\ ~run.trainInvoked

StrictlyIncreasing(s) == \A i \in 1..(Len(s) - 1) : s[i].t < s[i + 1].t

\* C1: every forecast result has horizon values and horizon timestamps, the
\* first timestamp strictly after the last timestamp of the input series and
\* consecutive timestamps spaced by the inferred frequency, whatever the
\* strategy (stated for input series with unique timestamps).
C1_ForecastShape ==
    (epc = "done" /\ StrictlyIncreasing(series)) =>
        /\ Len(result.values) = request.horizon
        /\ Len(result.index) = request.horizon
        /\ result.index[1] > LastOf(series).t
        /\ \A k \in 1..(Len(result.index) - 1) :
              result.index[k + 1] - result.index[k] = InferFreq(series)

NonDecreasing(s) == \A i \in 1..(Len(s) - 1) : s[i].t <= s[i + 1].t

\* the dates of the rows that have both fields are pairwise distinct
DistinctValidDates(rows) ==
    \A i, j \in 1..Len(rows) :
        (i # j /\ ValidRow(rows[i]) /\ ValidRow(rows[j])) => rows[i].date.d # rows[j].date.d

C8_LstmRecursiveRollout ==
    (request.strategy = "LSTM" /\ epc \in {"lstm", "done"}) =>
        /\ lstm.calls = Len(lstm.inputs)
        /\ lstm.calls = Len(lstm.preds)
        /\ lstm.calls <= request.horizon
        /\ epc = "done" => (lstm.calls = request.horizon
                            /\ Len(result.values) = request.horizon)
        /\ Len(lstm.inputs) >= 1 =>
              /\ Len(lstm.inputs[1]) = request.param
              /\ \A j \in 1..request.param :
                    lstm.inputs[1][j] =
                        MinMaxScale(ValuesOf(series))[Len(series) - request.param + j]
        /\ \A i \in 2..Len(lstm.inputs) :
              lstm.inputs[i] = Append(Tail(lstm.inputs[i - 1]), lstm.preds[i - 1])

\* a finished rollout of two steps over a window of two values, whose first
\* prediction differs from the value it pushed out
C8_Witness ==
    /\ epc = "done"
    /\ request.strategy = "LSTM"
    /\ request.horizon = 2 /\ request.param = 2
    /\ lstm.calls = 2
    /\ lstm.preds[1] # lstm.inputs[1][1]
    /\ lstm.inputs[2] # lstm.inputs[1]

(* ---------------------------------------------------------------------- *)
(* Claims on the backend                                                   *)
(* ---------------------------------------------------------------------- *)

\* the demo user with this email, as the table was filled
DemoUserOf(email) ==
    DemoUsers[CHOOSE i \in 1..Len(DemoUsers) : DemoUsers[i].email = email]

KnownEmail(email) == \E i \in 1..Len(DemoUsers) : DemoUsers[i].email = email

CorrectCredentials(email, password) ==
    KnownEmail(email) /\ DemoUserOf(email).password = password

\* the credentials of the login request that returned this token
IssuedTo(tok) == {r \in issued : r.token = tok}

\* C9: login with a user's correct email and password returns access_token,
\* token_type, expires_in and that user; /api/v1/auth/me with that token,
\* before it expires, returns the id, email, name and role of the user who
\* logged in.
C9_LoginThenMe ==
    /\ (resp.endpoint = "login" /\ CorrectCredentials(resp.email, resp.password)) =>
          /\ resp.status = 200
          /\ resp.body.access_token # NoToken
          /\ resp.body.token_type = "bearer"
          /\ resp.body.expires_in = JWT_EXPIRATION_HOURS * 3600
          /\ resp.body.user.email = resp.email
          /\ resp.body.user.name = DemoUserOf(resp.email).name
          /\ resp.body.user.role = DemoUserOf(resp.email).role
    /\ (resp.endpoint = "me" /\ IssuedTo(resp.token) # {} /\ now <= resp.token.exp) =>
          /\ resp.status = 200
          /\ \A r \in IssuedTo(resp.token) :
                /\ resp.body.user.email = r.email
                /\ resp.body.user.name = DemoUserOf(r.email).name
                /\ resp.body.user.role = DemoUserOf(r.email).role
                /\ StrOf(resp.body.user.id) = resp.token.sub

\* the second demo user's token, presented a step after login, got that
\* user's data back
C9_Witness ==
    /\ resp.endpoint = "me"
    /\ resp.status = 200
    /\ now > 0 /\ now <= resp.token.exp
    /\ \E r \in IssuedTo(resp.token) : r.email = DemoUsers[2].email
    /\ resp.body.user.email = DemoUsers[2].email

\* C10: login with an unknown email, or a known email and a wrong password,
\* is answered 401 without an access token, and no token is ever issued to
\* such a request.
C10_InvalidLoginRejected ==
    /\ (resp.endpoint = "login" /\ ~CorrectCredentials(resp.email, resp.password)) =>
          /\ resp.status = 401
          /\ resp.body.access_token = NoToken
    /\ \A r \in issued : CorrectCredentials(r.email, r.password)

\* a known email with another user's password was rejected
C10_Witness ==
    /\ resp.endpoint = "login"
    /\ resp.status = 401
    /\ KnownEmail(resp.email)
    /\ resp.password \in {DemoUsers[i].password : i \in 1..Len(DemoUsers)}
    /\ ~CorrectCredentials(resp.email, resp.password)

\* C11: a request without a bearer token to a protected endpoint is answered
\* 403 with no data, and neither the handler body nor any database query
\* runs for it.
C11_NoTokenForbidden ==
    (served.endpoint \in ProtectedEndpoints /\ ~served.hasCredentials) =>
        /\ served.status = 403
        /\ ~served.data
        /\ ~served.handlerRan
        /\ served.dbQueries = 0

\* the metrics endpoint was asked without a token after a token was issued
C11_Witness ==
    /\ served.endpoint = "/api/v1/metrics"
    /\ ~served.hasCredentials
    /\ served.status = 403
    /\ issued # {}

\* C12: in app_with_backend, after a click on "Demo Mode" the next run of main
\* passes the authentication gate and renders the application pages.
C12_DemoModePassesGate ==
    (app = "app_with_backend" /\ last.op = "demo_mode") => view = "pages"

\* C17: after _handle_response handled a 401 while the session held an access
\* token, none of access_token, current_user and token_expires is left in the
\* session state.
C17_SessionClearedOn401 ==
    (last.op = "handle_401" /\ last.hadToken) =>
        /\ ~last.after.access_token
        /\ last.after.current_user = "absent"
        /\ last.after.token_expires = AbsentTime

Expired(s, t) == s.access_token /\ s.token_expires # AbsentTime /\ t > s.token_expires

\* C18: in every reachable session state, is_authenticated raises no
\* KeyError, returns True exactly when access_token is present and
\* token_expires is absent or not yet passed, and on an expired token removes
\* access_token, current_user and token_expires and returns False.
C18_IsAuthenticated ==
    LET a == IsAuthenticated(session, wall) IN
    /\ ~a.raised
    /\ a.result <=> /\ session.access_token
                    /\ session.token_expires = AbsentTime \/ wall <= session.token_expires
    /\ Expired(session, wall) =>
        /\ ~a.result
        /\ ~a.session.access_token
        /\ a.session.current_user = "absent"
        /\ a.session.token_expires = AbsentTime

\* a session whose token has expired, and one left with a stale
\* token_expires by the 401 handling
C18_Witness ==
    \/ Expired(session, wall) /\ app = "app_with_backend" /\ view = "pages"
    \/ /\ last.op = "handle_401" /\ last.hadToken
       /\ ~session.access_token /\ session.token_expires # AbsentTime
       /\ wall > session.token_expires

\* C19: in app_fixed, with backend mode on, credentials that match
\* ENTERPRISE_USERS authenticate the session even when the backend rejects
\* them or is unavailable.
C19_LocalFallback ==
    (/\ last.op \in {"enterprise_sign_in", "handle_401"}
     /\ app = "app_fixed"
     /\ last.backendOn /\ last.backend # "ok" /\ last.localMatch) =>
        last.after.authenticated = "True"

\* C14: after a sign-up that reported "Account created successfully",
\* authenticate_user with the same email and password returns that user,
\* with or without an auth manager.
C14_SignInAfterSignUp ==
    (reg.op = "register" /\ reg.user # UserNone) =>
        AuthUtilsAuthenticateUser(manager, stores, reg.email, reg.password)
            = UserOf(reg.email, reg.name)

\* what the stores hold for an email
StoredFor(st, email) ==
    [demo |-> IF email \in DOMAIN st.demo THEN <<st.demo[email]>> ELSE <<>>,
     local |-> SelectSeq(st.local, LAMBDA u : u.email = email),
     supabase |-> IF email \in DOMAIN st.supabase THEN <<st.supabase[email]>> ELSE <<>>]

\* C15: a registration with an email that an earlier registration was
\* accepted for returns None and leaves what is stored for that email
\* unchanged, with or without an auth manager.
C15_DuplicateEmailRejected ==
    (reg.op = "register" /\ reg.email \in DOMAIN reg.before.first) =>
        /\ reg.user = UserNone
        /\ StoredFor(stores, reg.email) = StoredFor(reg.before, reg.email)

Attempts(attempted, c) == Cardinality({i \in 1..Len(attempted) : attempted[i] = c})

\* C16: after a broadcast, every connection whose send raised is out of
\* active_connections, every connection whose send succeeded is still in it,
\* and a send was attempted exactly once on every connection that was in the
\* list when the broadcast started.
C16_BroadcastRemovesDead ==
    bcast.done =>
        \A c \in ElemsOf(bcast.start) :
            /\ Attempts(bcast.attempted, c) = 1
            /\ c \in bcast.failing => c \notin ElemsOf(bcast.after)
            /\ c \notin bcast.failing => c \in ElemsOf(bcast.after)

\* C13: while monitor_processes is monitoring, a backend or frontend process
\* that has died is eventually running again, unless monitoring ends; also
\* after a restart attempt that failed while the other process is alive.
C13_DeadProcessRestarted ==
    /\ (Monitoring /\ ~backend_alive) ~> (backend_alive \/ ~Monitoring)
    /\ (Monitoring /\ ~frontend_alive) ~> (frontend_alive \/ ~Monitoring)

\* C20: "Deployment completed successfully!" is printed only in a run whose
\* deployment succeeded; for the docker and compose targets, never in a run
\* whose post-deploy health check failed.
C20_SuccessOnlyAfterHealthyDeploy ==
    dlog.success_printed =>
        /\ dlog.deployed
        /\ dargs.target \in {"docker", "compose"} => dlog.health # "failed"

====
